---- MODULE Spec2Model ----
(***************************************************************************)
(* Model of the diet optimizer: the greedy strategy of                     *)
(* src/dietOptimizer.ts and the linear-programming strategy of             *)
(* src/dietOptimizerLPSimple.ts, each with its own meal distributor.       *)
(*                                                                         *)
(* Numbers.  The source computes in IEEE doubles; the model carries every  *)
(* quantity as an integer in a fixed unit:                                 *)
(*   grams of a selection        mg   (1/1000 g)                           *)
(*   grams of a Diet entry       g    (the source rounds them)             *)
(*   tracked macros              cg   (1/100 g)                            *)
(*   target macros               tm   (1/3600 cg, exact for cal*pct/4, /9) *)
(*   calories                    ck   (1/100 kcal)                         *)
(*   calories inside one meal    1/10000 kcal                              *)
(*   nutrient consumed           1/100 of the nutrient's unit              *)
(*   percentage of NRV           1/100 of a percent                        *)
(*   scores                      1/1000                                    *)
(*   LP variable values          dg   (1/10 g)                             *)
(* Per-100g figures of the catalog are whole numbers.  Comparisons are     *)
(* made exactly (cross-multiplied); only magnitudes are truncated to the   *)
(* unit.  Infinity and NaN, which the source can produce by dividing by a  *)
(* zero calorie figure, are explicit values of a score.                    *)
(***************************************************************************)
EXTENDS Integers, Sequences, FiniteSets, TLC

VARIABLES
    strategy,             \* "greedy" (dietOptimizer.ts) or "lp" (dietOptimizerLPSimple.ts)
    input,                \* the GetDietInput of this call
    targetCalories,       \* ck
    pc,                   \* position of the call
    selectedIngredients,  \* IngredientSelection[]: <<[ingredient, amount (mg)]>>
    nutrientTracking,     \* NutrientTracking[]
    currentMacros,        \* MacroTracking (cg)
    currentCalories,      \* ck
    iterations,           \* loop iterations of selectOptimalIngredients so far
    model,                \* LP strategy: the model object handed to the solver
    solution,             \* what solver.Solve returned
    flat,                 \* the selection as it was handed to distributeToMeals
    sortedIngredients,    \* greedy distributor: order of the selections (indices)
    mealIndex,            \* greedy distributor: meals filled so far
    dietMeals,            \* DietMeal[] under construction / returned
    path,                 \* "none", "greedy", "solved" or "fallback"
    now,                  \* the wall clock that new Date() reads, in days
    energyInputs,         \* Energy Model evaluations: the inputs to evaluate
    evaluations,          \* Energy Model evaluations: the results so far
    catalog,              \* two calls: the nutrient, ingredient and meal objects they share
    calls,                \* two calls: the locals of each call
    trackers              \* two calls: the tracking objects that the calls created

\* the variables of one call of getDiet
callVars == <<strategy, input, targetCalories, pc, selectedIngredients, nutrientTracking,
              currentMacros, currentCalories, iterations, model, solution, flat,
              sortedIngredients, mealIndex, dietMeals, path>>

\* the variables of the Energy Model evaluations
energyVars == <<energyInputs, evaluations>>

\* the variables of two calls over one catalog
pairVars == <<catalog, calls, trackers>>

vars == <<callVars, now, energyVars, pairVars>>

----------------------------------------------------------------------------
(* Arithmetic helpers                                                      *)

Min(a, b) == IF a <= b THEN a ELSE b

Max(a, b) == IF a >= b THEN a ELSE b

Abs(a) == IF a < 0 THEN -a ELSE a

RECURSIVE SeqSum(_)
SeqSum(s) == IF Len(s) = 0 THEN 0 ELSE Head(s) + SeqSum(Tail(s))


RECURSIVE Gcd(_, _)
Gcd(a, b) == IF b = 0 THEN a ELSE Gcd(b, a % b)

\* Math.round of a value held in thousandths (round half up, as in JS)
MathRound(milli) == (milli + 500) \div 1000

----------------------------------------------------------------------------
(* String.prototype.includes and toLowerCase over the names of the model   *)

Includes(s, sub) ==
    \E i \in 1..(Len(s) - Len(sub) + 1) : SubSeq(s, i, i + Len(sub) - 1) = sub

UpperToLower ==
    [c \in {"A","B","C","D","E","F","G","H","I","J","K","L","M",
            "N","O","P","Q","R","S","T","U","V","W","X","Y","Z"} |->
       CASE c = "A" -> "a" [] c = "B" -> "b" [] c = "C" -> "c" [] c = "D" -> "d"
         [] c = "E" -> "e" [] c = "F" -> "f" [] c = "G" -> "g" [] c = "H" -> "h"
         [] c = "I" -> "i" [] c = "J" -> "j" [] c = "K" -> "k" [] c = "L" -> "l"
         [] c = "M" -> "m" [] c = "N" -> "n" [] c = "O" -> "o" [] c = "P" -> "p"
         [] c = "Q" -> "q" [] c = "R" -> "r" [] c = "S" -> "s" [] c = "T" -> "t"
         [] c = "U" -> "u" [] c = "V" -> "v" [] c = "W" -> "w" [] c = "X" -> "x"
         [] c = "Y" -> "y" [] c = "Z" -> "z"]

RECURSIVE toLowerCase(_)
toLowerCase(s) ==
    IF Len(s) = 0 THEN ""
    ELSE LET c == SubSeq(s, 1, 1)
         IN  (IF c \in DOMAIN UpperToLower THEN UpperToLower[c] ELSE c)
                \o toLowerCase(SubSeq(s, 2, Len(s)))

isSupplement(ingredient) == Includes(ingredient.name, "Supplement")

----------------------------------------------------------------------------
(* Energy Model (dietOptimizer.ts 145-215, dietOptimizerLPSimple.ts 232-283) *)

\* activityMultipliers * 40
activityMultipliers ==
    [sedentary |-> 48, light |-> 55, moderate |-> 62, very |-> 69]

\* TDEE in 1/5000 kcal.  leanBodyMass is in 1/100 kg; bmr = 370 + 21.6 * LBM is
\* (46250 + 27 * leanBodyMass) / 125 kcal.  sex and age are not read.
calculateTDEE(sex, age, bodyWeight, bodyFatPercentage, activityLevel) ==
    LET leanBodyMass == bodyWeight * (100 - bodyFatPercentage)
        bmr == 46250 + 27 * leanBodyMass
    IN  bmr * activityMultipliers[activityLevel]

\* a variant of adjustCaloriesForGoal that uses what the source computes and
\* drops: the maximum deficit when the target date is less than 30 days away
adjustCaloriesForGoal_ByDate(tdee, goal, bodyWeight) ==
    CASE goal.type = "build-muscle" -> tdee * 23
      [] goal.type = "lose-fat" ->
            LET daysToTarget == goal.targetDate - now
                maxDeficit == tdee * 15
                minIntake == IF bodyWeight < 70 THEN 1200 ELSE 1500
            IN  IF daysToTarget < 30 THEN Max(maxDeficit, minIntake * 100000)
                ELSE Max(tdee * 16, minIntake * 100000)
      [] goal.type = "maintain" -> tdee * 20
      [] OTHER -> tdee * 20

\* target calories in 1/100000 kcal, from a TDEE in 1/5000 kcal
adjustCaloriesForGoal(tdee, goal, bodyWeight) ==
    CASE goal.type = "build-muscle" -> tdee * 23
      [] goal.type = "lose-fat" ->
            LET \* Math.ceil((targetDate.getTime() - new Date().getTime()) / ms per day)
                daysToTarget == goal.targetDate - now
                maxDeficit == tdee * 15
                minIntake == IF bodyWeight < 70 THEN 1200 ELSE 1500
            IN  Max(tdee * 16, minIntake * 100000)
      [] goal.type = "maintain" -> tdee * 20
      [] OTHER -> tdee * 20

\* the same two functions as dietOptimizerLPSimple.ts repeats them
LP_calculateTDEE(sex, age, bodyWeight, bodyFatPercentage, activityLevel) ==
    LET leanBodyMass == bodyWeight * (100 - bodyFatPercentage)
        bmr == 46250 + 27 * leanBodyMass
    IN  bmr * activityMultipliers[activityLevel]

\* a variant of the LP file's adjustCaloriesForGoal with bodyWeight <= 70
LP_adjustCaloriesForGoal_AtMost70(tdee, goal, bodyWeight) ==
    CASE goal.type = "build-muscle" -> tdee * 23
      [] goal.type = "lose-fat" ->
            LET minIntake == IF bodyWeight <= 70 THEN 1200 ELSE 1500
            IN  Max(tdee * 16, minIntake * 100000)
      [] goal.type = "maintain" -> tdee * 20
      [] OTHER -> tdee * 20

LP_adjustCaloriesForGoal(tdee, goal, bodyWeight) ==
    CASE goal.type = "build-muscle" -> tdee * 23
      [] goal.type = "lose-fat" ->
            LET minIntake == IF bodyWeight < 70 THEN 1200 ELSE 1500
            IN  Max(tdee * 16, minIntake * 100000)
      [] goal.type = "maintain" -> tdee * 20
      [] OTHER -> tdee * 20

\* target macros in tm from calories in ck: protein = cal*pct/100/4 g, fat = cal*pct/100/9 g
calculateTargetMacros(calories, targetMacros) ==
    [protein |-> calories * targetMacros.proteinPercentage * 9,
     carbs   |-> calories * targetMacros.carbsPercentage * 9,
     fat     |-> calories * targetMacros.fatPercentage * 4]

\* getDiet steps 1-2, brought to ck
TargetCaloriesOf(in, strat) ==
    IF strat = "greedy"
    THEN adjustCaloriesForGoal(
             calculateTDEE(in.sex, in.age, in.bodyWeight, in.bodyFatPercentage,
                           in.activityLevel),
             in.goal, in.bodyWeight) \div 1000
    ELSE LP_adjustCaloriesForGoal(
             LP_calculateTDEE(in.sex, in.age, in.bodyWeight, in.bodyFatPercentage,
                              in.activityLevel),
             in.goal, in.bodyWeight) \div 1000

----------------------------------------------------------------------------
(* Greedy Selector (dietOptimizer.ts 217-549)                              *)

\* a score: a finite number of thousandths, +Infinity or NaN
Fin(v) == [kind |-> "fin", val |-> v]

Infinity == [kind |-> "inf", val |-> 0]

NaN == [kind |-> "nan", val |-> 0]

\* a > b on scores; b may also be the initial -Infinity of findBestIngredient
ScoreGreater(a, b) ==
    CASE a.kind = "nan" \/ b.kind = "nan" -> FALSE
      [] b.kind = "neginf" -> TRUE
      [] a.kind = "inf" -> b.kind = "fin"
      [] b.kind = "inf" -> FALSE
      [] OTHER -> a.val > b.val

initializeNutrientTracking(nutrients) ==
    [i \in 1..Len(nutrients) |->
        [nutrient |-> nutrients[i], consumed |-> 0, percentage |-> 0]]

\* a variant of areAllNRVsMet that is content with one covered nutrient
\* (some() where the source has every())
areAllNRVsMet_Some(tracking) ==
    \E i \in 1..Len(tracking) : tracking[i].percentage >= 10000

areAllNRVsMet(tracking) ==
    \A i \in 1..Len(tracking) : tracking[i].percentage >= 10000

\* tracking.find((t) => t.nutrient.name === name): index of the first match, 0 if none
FindTracking(tracking, name) ==
    IF \E i \in 1..Len(tracking) : tracking[i].nutrient.name = name
    THEN CHOOSE i \in 1..Len(tracking) :
            /\ tracking[i].nutrient.name = name
            /\ \A j \in 1..(i - 1) : tracking[j].nutrient.name # name
    ELSE 0

calculateCaloriesFromMacros(macros) ==
    macros.protein * 4 + macros.carbs * 4 + macros.fat * 9

calculateTotalCalories(macros) ==
    macros.protein * 4 + macros.carbs * 4 + macros.fat * 9

\* the ingredient nutrients that have a tracking entry still below 100%
UnmetNutrients(ingredient, tracking) ==
    {i \in 1..Len(ingredient.nutrients) :
        LET t == FindTracking(tracking, ingredient.nutrients[i].nutrient.name)
        IN  t # 0 /\ tracking[t].percentage < 10000}

\* macro score in thousandths; currentMacros in cg, targetMacros in tm
calculateMacroScore(ingredientMacros, currentMacros_, targetMacros) ==
    LET currentTotal == currentMacros_.protein + currentMacros_.carbs + currentMacros_.fat
        g == Gcd(Gcd(targetMacros.protein, targetMacros.carbs), targetMacros.fat)
        tgt == IF g = 0 THEN targetMacros
               ELSE [protein |-> targetMacros.protein \div g,
                     carbs   |-> targetMacros.carbs \div g,
                     fat     |-> targetMacros.fat \div g]
        targetTotal == tgt.protein + tgt.carbs + tgt.fat
        ingredientTotal ==
            ingredientMacros.protein + ingredientMacros.carbs + ingredientMacros.fat
        \* currentRatios.m < targetRatios.m && ingredientRatios.m > currentRatios.m;
        \* a ratio over a zero total is NaN and every comparison with it is false
        Helps(m) ==
            /\ targetTotal # 0
            /\ ingredientTotal # 0
            /\ currentMacros_[m] * targetTotal < tgt[m] * currentTotal
            /\ ingredientMacros[m] * currentTotal > currentMacros_[m] * ingredientTotal
        Gain(m) ==
            IF Helps(m)
            THEN 2 * ((ingredientMacros[m] * 1000) \div ingredientTotal
                      - (currentMacros_[m] * 1000) \div currentTotal)
            ELSE 0
    IN  IF currentTotal = 0 THEN 1000
        ELSE Gain("protein") + Gain("carbs") + Gain("fat")

\* remainingCalories in ck
calculateIngredientScore(ingredient, tracking, currentMacros_, targetMacros, remainingCalories) ==
    LET caloriesPer100g == calculateCaloriesFromMacros(ingredient.macros)
        unmet == UnmetNutrients(ingredient, tracking)
        \* nutrientDensity * deficiency * 10 of one nutrient, in thousandths
        Term(i) ==
            LET t == FindTracking(tracking, ingredient.nutrients[i].nutrient.name)
            IN  (ingredient.nutrients[i].amount * (10000 - tracking[t].percentage) * 100)
                    \div caloriesPer100g
        RECURSIVE Density(_)
        Density(i) ==
            IF i > Len(ingredient.nutrients) THEN 0
            ELSE (IF i \in unmet THEN Term(i) ELSE 0) + Density(i + 1)
        macroScore == calculateMacroScore(ingredient.macros, currentMacros_, targetMacros)
    IN  IF caloriesPer100g * 100 > remainingCalories THEN Fin(-1000000)
        ELSE IF caloriesPer100g = 0
             THEN \* amount / 0 is Infinity, 0 / 0 is NaN
                  IF \E i \in unmet : ingredient.nutrients[i].amount = 0 THEN NaN
                  ELSE IF unmet # {} THEN Infinity
                  ELSE Fin(macroScore * 5)
             ELSE Fin(Density(1) + macroScore * 5)

\* index into ingredients of the best ingredient, 0 for null
findBestIngredient(ingredients, tracking, currentMacros_, targetMacros, remainingCalories) ==
    LET score(i) == calculateIngredientScore(ingredients[i], tracking, currentMacros_,
                                             targetMacros, remainingCalories)
        RECURSIVE Scan(_, _, _)
        Scan(i, bestIngredient, bestScore) ==
            IF i > Len(ingredients) THEN bestIngredient
            ELSE IF ScoreGreater(score(i), bestScore)
                 THEN Scan(i + 1, i, score(i))
                 ELSE Scan(i + 1, bestIngredient, bestScore)
    IN  Scan(1, 0, [kind |-> "neginf", val |-> 0])

\* the macro-limited amount in mg
calculateMacroLimitedAmount(ingredientMacros, currentMacros_, targetMacros) ==
    LET \* (target - current) in tm, positive when the target is not reached
        Room(m) == targetMacros[m] - currentMacros_[m] * 3600
        \* ((target - current) / ingredientMacro) * 100 g, with the 10% buffer, in mg
        Limit(m) == (Room(m) * 11) \div (36 * ingredientMacros[m])
        limits == {m \in {"protein", "carbs", "fat"} :
                      ingredientMacros[m] > 0 /\ Room(m) > 0}
    IN  IF limits # {}
        THEN CHOOSE v \in {Limit(m) : m \in limits} :
                \A m \in limits : v <= Limit(m)
        ELSE 500000

\* grams (a whole number); remainingCalories in ck and positive, as in the loop
calculateOptimalAmount(ingredient, tracking, currentMacros_, targetMacros, remainingCalories) ==
    LET caloriesPer100g == calculateCaloriesFromMacros(ingredient.macros)
        unmet == UnmetNutrients(ingredient, tracking)
        \* amountToMeetNeed * 1.2 in mg; none when the nutrient amount is 0 (Infinity)
        Need(i) ==
            LET t == tracking[FindTracking(tracking, ingredient.nutrients[i].nutrient.name)]
                neededAmount == t.nutrient.nrv * 100 - t.consumed
            IN  (neededAmount * 1200) \div ingredient.nutrients[i].amount
        caps == {Need(i) : i \in {j \in unmet : ingredient.nutrients[j].amount > 0}}
                  \cup {calculateMacroLimitedAmount(ingredient.macros, currentMacros_,
                                                    targetMacros)}
                  \cup (IF caloriesPer100g > 0
                        THEN {(remainingCalories * 150) \div caloriesPer100g}
                        ELSE {})
        optimalAmount == CHOOSE v \in caps : \A w \in caps : v <= w
        maxAmount == IF isSupplement(ingredient) THEN 10 ELSE 500
        minAmount == IF isSupplement(ingredient) THEN 1 ELSE 5
    IN  Max(minAmount, Min(maxAmount, MathRound(optimalAmount)))

\* a variant of updateTracking that overwrites consumed (= where the source has +=)
updateTracking_Overwrite(ingredient, amount, tracking) ==
    LET RECURSIVE Apply(_, _)
        Apply(i, tr) ==
            IF i > Len(ingredient.nutrients) THEN tr
            ELSE LET t == FindTracking(tr, ingredient.nutrients[i].nutrient.name)
                     consumed == ingredient.nutrients[i].amount * amount
                 IN  IF t = 0 THEN Apply(i + 1, tr)
                     ELSE Apply(i + 1,
                                [tr EXCEPT ![t].consumed = consumed,
                                           ![t].percentage =
                                               (consumed * 100) \div tr[t].nutrient.nrv])
    IN  Apply(1, tracking)

\* the tracking after adding `amount` grams of `ingredient`
updateTracking(ingredient, amount, tracking) ==
    LET RECURSIVE Apply(_, _)
        Apply(i, tr) ==
            IF i > Len(ingredient.nutrients) THEN tr
            ELSE LET t == FindTracking(tr, ingredient.nutrients[i].nutrient.name)
                     consumed == tr[t].consumed + ingredient.nutrients[i].amount * amount
                 IN  IF t = 0 THEN Apply(i + 1, tr)
                     ELSE Apply(i + 1,
                                [tr EXCEPT ![t].consumed = consumed,
                                           ![t].percentage =
                                               (consumed * 100) \div tr[t].nutrient.nrv])
    IN  Apply(1, tracking)

\* the macros (cg) after adding `amount` grams of `ingredient`
updateMacros(ingredient, amount, macros) ==
    [protein |-> macros.protein + ingredient.macros.protein * amount,
     carbs   |-> macros.carbs + ingredient.macros.carbs * amount,
     fat     |-> macros.fat + ingredient.macros.fat * amount]

----------------------------------------------------------------------------
(* Macro Balancer (dietOptimizer.ts 551-648)                               *)

\* Min(cap, floor(amount * num / den)) without leaving the 32-bit range
ScaledAmount(amount, num, den, cap) ==
    LET hi == ((amount \div 1000) * num) \div den
        lo == (((amount \div 1000) * num) % den) * 1000 + (amount % 1000) * num
    IN  IF hi >= cap \div 1000 + 1 THEN cap
        ELSE Min(cap, hi * 1000 + lo \div den)

\* the scale-up branch: every amount times targetCalories / currentCalories
ScaleUp(selections, currentCalories_, targetCalories_) ==
    [i \in 1..Len(selections) |->
        LET currentAmount == selections[i].amount
        IN  IF isSupplement(selections[i].ingredient)
            THEN \* Math.min(10, currentAmount * Math.min(scaleFactor, 1.5))
                 [selections[i] EXCEPT !.amount =
                     IF currentCalories_ = 0 \/ targetCalories_ * 2 >= currentCalories_ * 3
                     THEN Min(10000, (currentAmount * 3) \div 2)
                     ELSE ScaledAmount(currentAmount, targetCalories_, currentCalories_,
                                       10000)]
            ELSE \* Math.min(500, selection.amount * scaleFactor); x / 0 is Infinity
                 [selections[i] EXCEPT !.amount =
                     IF currentCalories_ = 0 THEN 500000
                     ELSE ScaledAmount(currentAmount, targetCalories_, currentCalories_,
                                       500000)]]

\* macros (cg) of a selection list, recomputed from scratch
RecalculateMacros(selections) ==
    LET Total(m) ==
            SeqSum([i \in 1..Len(selections) |->
                       selections[i].ingredient.macros[m] * selections[i].amount])
                \div 1000
    IN  [protein |-> Total("protein"), carbs |-> Total("carbs"), fat |-> Total("fat")]

\* a variant of the refinement pass that raises on any positive gap (0 where
\* the source has 5)
RefinePass_AnyGap(selections, proteinDiff, carbsDiff, fatDiff) ==
    [i \in 1..Len(selections) |->
        LET m == selections[i].ingredient.macros
            maxAmount == IF isSupplement(selections[i].ingredient) THEN 10000 ELSE 500000
            newAmount == (selections[i].amount * 21) \div 20
            raise ==
                \/ proteinDiff > 0 /\ m.protein > m.carbs /\ m.protein > m.fat
                \/ carbsDiff > 0 /\ m.carbs > m.protein /\ m.carbs > m.fat
                \/ fatDiff > 0 /\ m.fat > m.protein /\ m.fat > m.carbs
        IN  IF raise THEN [selections[i] EXCEPT !.amount = Min(maxAmount, newAmount)]
            ELSE selections[i]]

\* one refinement pass over the selections, with the gaps (tm) of the pass
RefinePass(selections, proteinDiff, carbsDiff, fatDiff) ==
    [i \in 1..Len(selections) |->
        LET m == selections[i].ingredient.macros
            maxAmount == IF isSupplement(selections[i].ingredient) THEN 10000 ELSE 500000
            newAmount == (selections[i].amount * 21) \div 20
            raise ==
                \/ proteinDiff > 1800000 /\ m.protein > m.carbs /\ m.protein > m.fat
                \/ carbsDiff > 1800000 /\ m.carbs > m.protein /\ m.carbs > m.fat
                \/ fatDiff > 1800000 /\ m.fat > m.protein /\ m.fat > m.carbs
        IN  IF raise THEN [selections[i] EXCEPT !.amount = Min(maxAmount, newAmount)]
            ELSE selections[i]]

\* the refinement passes that optimizeMacroBalance performs: the selections
\* after the first pass, after the second, ...
RefinementPasses(selections, currentMacros_, targetMacros) ==
    LET RECURSIVE Refine(_, _, _, _)
        Refine(i, sel, macros, done) ==
            IF i >= 10 THEN done
            ELSE LET proteinDiff == targetMacros.protein - macros.protein * 3600
                     carbsDiff == targetMacros.carbs - macros.carbs * 3600
                     fatDiff == targetMacros.fat - macros.fat * 3600
                     next == RefinePass(sel, proteinDiff, carbsDiff, fatDiff)
                     recalculated == RecalculateMacros(next)
                 IN  IF /\ Abs(proteinDiff) < 1800000
                        /\ Abs(carbsDiff) < 1800000
                        /\ Abs(fatDiff) < 1800000
                     THEN Append(done, next)
                     ELSE Refine(i + 1, next, recalculated, Append(done, next))
    IN  Refine(0, selections, currentMacros_, <<>>)

\* [selections, macros] after optimizeMacroBalance
optimizeMacroBalance(selections, currentMacros_, targetMacros, targetCalories_) ==
    LET currentCalories_ == calculateTotalCalories(currentMacros_)
        calorieDiff == targetCalories_ - currentCalories_
        RECURSIVE Refine(_, _, _)
        Refine(i, sel, macros) ==
            IF i >= 10 THEN [selections |-> sel, macros |-> macros]
            ELSE LET proteinDiff == targetMacros.protein - macros.protein * 3600
                     carbsDiff == targetMacros.carbs - macros.carbs * 3600
                     fatDiff == targetMacros.fat - macros.fat * 3600
                     next == RefinePass(sel, proteinDiff, carbsDiff, fatDiff)
                     recalculated == RecalculateMacros(next)
                 IN  IF /\ Abs(proteinDiff) < 1800000
                        /\ Abs(carbsDiff) < 1800000
                        /\ Abs(fatDiff) < 1800000
                     THEN [selections |-> next, macros |-> recalculated]
                     ELSE Refine(i + 1, next, recalculated)
    IN  IF calorieDiff * 100 > targetCalories_ * 5
        THEN [selections |-> ScaleUp(selections, currentCalories_, targetCalories_),
              macros |-> currentMacros_]
        ELSE Refine(0, selections, currentMacros_)

----------------------------------------------------------------------------
(* Meal Distributor of the greedy strategy (dietOptimizer.ts 650-767)      *)

\* the comparator of the sort, on two selections
CompareMealTiming(a, b) ==
    LET aName == toLowerCase(a.ingredient.name)
        bName == toLowerCase(b.ingredient.name)
    IN  IF Includes(aName, "oat") \/ Includes(aName, "egg") \/ Includes(aName, "milk")
        THEN -1
        ELSE IF Includes(bName, "oat") \/ Includes(bName, "egg") \/ Includes(bName, "milk")
        THEN 1
        ELSE IF Includes(aName, "rice") \/ Includes(aName, "meat") \/ Includes(aName, "fish")
        THEN 1
        ELSE IF Includes(bName, "rice") \/ Includes(bName, "meat") \/ Includes(bName, "fish")
        THEN -1
        ELSE 0

\* [...selectedIngredients].sort(...): the sorted order as indices into the
\* selection list (the copies share the selection objects).  A stable insertion
\* sort; the catalogs of the model hold at most one breakfast food and one
\* dinner food, for which the comparator is a consistent ordering.
SortedOrder(selections) ==
    LET RECURSIVE Sort(_, _)
        Sort(i, sorted) ==
            IF i > Len(selections) THEN sorted
            ELSE LET after == {k \in 1..Len(sorted) :
                                 CompareMealTiming(selections[i], selections[sorted[k]]) >= 0}
                     pos == IF after = {} THEN 0
                            ELSE CHOOSE k \in after : \A j \in after : j <= k
                 IN  Sort(i + 1, SubSeq(sorted, 1, pos) \o <<i>>
                                   \o SubSeq(sorted, pos + 1, Len(sorted)))
    IN  Sort(1, <<>>)

\* a variant of the body that commits the whole of every selection it walks
\* to the meal (portionRatio always 1):
\* [selections (amounts reduced), ingredients (the meal's entries)]
FillMeal_WholePortion(meal, selections, order, targetCalories_) ==
    LET mealCalories == targetCalories_ * meal.kcalPercentage
        RECURSIVE Walk(_, _, _, _)
        Walk(k, sel, mealIngredients, currentMealCalories) ==
            IF k > Len(order) \/ currentMealCalories * 20 >= mealCalories * 19
            THEN [selections |-> sel, ingredients |-> mealIngredients]
            ELSE LET selection == sel[order[k]]
                     ingredientCaloriesPer100g ==
                         calculateCaloriesFromMacros(selection.ingredient.macros)
                     totalIngredientCalories ==
                         (selection.amount * ingredientCaloriesPer100g) \div 10
                     remainingMealCalories == mealCalories - currentMealCalories
                     \* portionRatio = min(1, remaining / total); x / 0 is Infinity
                     whole == TRUE
                     meaningful == whole
                                \/ remainingMealCalories * 10 > totalIngredientCalories
                     \* selection.amount * portionRatio; below 1 the ratio gives
                     \* remaining / caloriesPer100g * 100 grams
                     portion == IF whole THEN selection.amount
                                ELSE (remainingMealCalories * 10)
                                        \div ingredientCaloriesPer100g
                     mealAmount == IF isSupplement(selection.ingredient)
                                   THEN Min(portion, 5000) ELSE portion
                 IN  IF meaningful
                     THEN Walk(k + 1,
                               [sel EXCEPT ![order[k]].amount = @ - mealAmount],
                               Append(mealIngredients,
                                      [ingredient |-> selection.ingredient,
                                       amount |-> MathRound(mealAmount)]),
                               currentMealCalories
                                  + (mealAmount * ingredientCaloriesPer100g) \div 10)
                     ELSE Walk(k + 1, sel, mealIngredients, currentMealCalories)
    IN  Walk(1, selections, <<>>, 0)

\* the body of `for (const meal of meals)` for one meal:
\* [selections (amounts reduced), ingredients (the meal's entries)]
FillMeal(meal, selections, order, targetCalories_) ==
    LET mealCalories == targetCalories_ * meal.kcalPercentage
        RECURSIVE Walk(_, _, _, _)
        Walk(k, sel, mealIngredients, currentMealCalories) ==
            IF k > Len(order) \/ currentMealCalories * 20 >= mealCalories * 19
            THEN [selections |-> sel, ingredients |-> mealIngredients]
            ELSE LET selection == sel[order[k]]
                     ingredientCaloriesPer100g ==
                         calculateCaloriesFromMacros(selection.ingredient.macros)
                     totalIngredientCalories ==
                         (selection.amount * ingredientCaloriesPer100g) \div 10
                     remainingMealCalories == mealCalories - currentMealCalories
                     \* portionRatio = min(1, remaining / total); x / 0 is Infinity
                     whole == totalIngredientCalories = 0
                                \/ remainingMealCalories >= totalIngredientCalories
                     meaningful == whole
                                \/ remainingMealCalories * 10 > totalIngredientCalories
                     \* selection.amount * portionRatio; below 1 the ratio gives
                     \* remaining / caloriesPer100g * 100 grams
                     portion == IF whole THEN selection.amount
                                ELSE (remainingMealCalories * 10)
                                        \div ingredientCaloriesPer100g
                     mealAmount == IF isSupplement(selection.ingredient)
                                   THEN Min(portion, 5000) ELSE portion
                 IN  IF meaningful
                     THEN Walk(k + 1,
                               [sel EXCEPT ![order[k]].amount = @ - mealAmount],
                               Append(mealIngredients,
                                      [ingredient |-> selection.ingredient,
                                       amount |-> MathRound(mealAmount)]),
                               currentMealCalories
                                  + (mealAmount * ingredientCaloriesPer100g) \div 10)
                     ELSE Walk(k + 1, sel, mealIngredients, currentMealCalories)
    IN  Walk(1, selections, <<>>, 0)

\* a variant of the largest meal that takes the last of the meals with the
\* highest kcalPercentage (>= where the source has >)
LargestMealIndex_Last(meals) ==
    CHOOSE i \in 1..Len(meals) :
        /\ \A j \in 1..Len(meals) : meals[j].kcalPercentage <= meals[i].kcalPercentage
        /\ \A j \in (i + 1)..Len(meals) : meals[j].kcalPercentage < meals[i].kcalPercentage

\* meals.indexOf(meals.reduce((max, meal) => meal.kcalPercentage > max.kcalPercentage
\* ? meal : max)) for a non-empty meal list
LargestMealIndex(meals) ==
    CHOOSE i \in 1..Len(meals) :
        /\ \A j \in 1..Len(meals) : meals[j].kcalPercentage <= meals[i].kcalPercentage
        /\ \A j \in 1..(i - 1) : meals[j].kcalPercentage < meals[i].kcalPercentage

\* the entries the last loop pushes to the largest meal
Leftovers(selections, order) ==
    LET RECURSIVE Collect(_)
        Collect(k) ==
            IF k > Len(order) THEN <<>>
            ELSE LET selection == selections[order[k]]
                     supplement == isSupplement(selection.ingredient)
                     minAmount == IF supplement THEN 1000 ELSE 5000
                     maxPerMeal == IF supplement THEN 5000 ELSE selection.amount
                     amountToAdd == Min(selection.amount, maxPerMeal)
                 IN  (IF selection.amount > minAmount
                      THEN <<[ingredient |-> selection.ingredient,
                              amount |-> MathRound(amountToAdd)]>>
                      ELSE <<>>) \o Collect(k + 1)
    IN  Collect(1)

\* distributeToMeals of dietOptimizer.ts as one function of its arguments:
\* [threw, meals]
distributeToMeals(selections, meals, targetCalories_) ==
    LET order == SortedOrder(selections)
        RECURSIVE Fill(_, _, _)
        Fill(k, sel, filled) ==
            IF k > Len(meals) THEN [selections |-> sel, meals |-> filled]
            ELSE LET one == FillMeal(meals[k], sel, order, targetCalories_)
                 IN  Fill(k + 1, one.selections,
                          Append(filled, [meal |-> meals[k],
                                          ingredients |-> one.ingredients]))
        after == Fill(1, selections, <<>>)
    IN  IF Len(meals) = 0 THEN [threw |-> TRUE, meals |-> <<>>]
        ELSE [threw |-> FALSE,
              meals |-> [after.meals EXCEPT ![LargestMealIndex(meals)].ingredients =
                            @ \o Leftovers(after.selections, order)]]

----------------------------------------------------------------------------
(* LP strategy (dietOptimizerLPSimple.ts 31-229, 285-329)                  *)

criticalNutrients ==
    <<"Vitamin D", "Vitamin B12", "Iron", "Calcium", "Omega-3 fatty acids">>

IsCritical(name) == \E i \in 1..Len(criticalNutrients) : criticalNutrients[i] = name

AlphaNumeric ==
    DOMAIN UpperToLower
      \cup {UpperToLower[c] : c \in DOMAIN UpperToLower}
      \cup {"0", "1", "2", "3", "4", "5", "6", "7", "8", "9"}

\* name.replace(/[^a-zA-Z0-9]/g, "_")
RECURSIVE safeName(_)
safeName(name) ==
    IF Len(name) = 0 THEN ""
    ELSE LET c == SubSeq(name, 1, 1)
         IN  (IF c \in AlphaNumeric THEN c ELSE "_") \o safeName(SubSeq(name, 2, Len(name)))

\* `x${index}` of the ingredient at position i of the catalog (index = i - 1)
varName(i) == "x" \o ToString(i - 1)

\* model.variables[varName]: the attributes of one variable, times 100.  The
\* attributes are totalCost, calories, protein, carbs, fat and one n_<safeName>
\* for each critical nutrient of the ingredient; there is no other attribute.
Variable(ingredient) ==
    LET critical == {j \in 1..Len(ingredient.nutrients) :
                        IsCritical(ingredient.nutrients[j].nutrient.name)}
        NutrientAttribute(j) == "n_" \o safeName(ingredient.nutrients[j].nutrient.name)
        names == {"totalCost", "calories", "protein", "carbs", "fat"}
                   \cup {NutrientAttribute(j) : j \in critical}
    IN  [a \in names |->
            CASE a = "totalCost" -> IF isSupplement(ingredient) THEN 500 ELSE 100
              [] a = "calories" -> ingredient.macros.protein * 4
                                     + ingredient.macros.carbs * 4
                                     + ingredient.macros.fat * 9
              [] a = "protein" -> ingredient.macros.protein
              [] a = "carbs" -> ingredient.macros.carbs
              [] a = "fat" -> ingredient.macros.fat
              [] OTHER ->
                    \* a later nutrientInfo of the same name overwrites an earlier one
                    LET last == CHOOSE j \in critical :
                                    /\ NutrientAttribute(j) = a
                                    /\ \A k \in critical :
                                          NutrientAttribute(k) = a => k <= j
                    IN  ingredient.nutrients[last].amount]

\* model.constraints: name -> [min, max] over the sum of attribute * value, in
\* thousandths (attribute * 100 times value in dg); -1 stands for an absent side.
\* A min is the least whole sum that reaches it.
Constraints(in, targetCalories_) ==
    LET targetMacrosInGrams == calculateTargetMacros(targetCalories_, in.targetMacros)
        MacroMin(m) == (7 * targetMacrosInGrams[m] + 3599) \div 3600
        critical == {j \in 1..Len(in.nutrients) : IsCritical(in.nutrients[j].name)}
        NutrientConstraint(j) == "n_" \o safeName(in.nutrients[j].name)
        names == {"calories", "protein", "carbs", "fat"}
                   \cup {NutrientConstraint(j) : j \in critical}
                   \cup {varName(i) : i \in 1..Len(in.ingredients)}
    IN  [c \in names |->
            CASE c = "calories" -> [min |-> 9 * targetCalories_, max |-> 11 * targetCalories_]
              [] c \in {"protein", "carbs", "fat"} -> [min |-> MacroMin(c), max |-> -1]
              [] \E j \in critical : NutrientConstraint(j) = c ->
                    LET last == CHOOSE j \in critical :
                                    /\ NutrientConstraint(j) = c
                                    /\ \A k \in critical :
                                          NutrientConstraint(k) = c => k <= j
                    IN  [min |-> in.nutrients[last].nrv * 500, max |-> -1]
              [] OTHER ->
                    LET i == CHOOSE k \in 1..Len(in.ingredients) : varName(k) = c
                    IN  [min |-> -1,
                         max |-> IF isSupplement(in.ingredients[i]) THEN 10000 ELSE 300000]]

\* the model object of getDiet step 4
BuildModel(in, targetCalories_) ==
    [optimize |-> "totalCost",
     opType |-> "min",
     constraints |-> Constraints(in, targetCalories_),
     variables |-> [i \in 1..Len(in.ingredients) |-> Variable(in.ingredients[i])]]

NoModel == [optimize |-> "", opType |-> "", constraints |-> <<>>, variables |-> <<>>]

\* does the assignment `values` (dg per variable) satisfy every constraint of
\* the model?  A constraint bounds the sum, over the variables, of the
\* attribute named like the constraint; a variable without that attribute
\* contributes nothing.
SatisfiesModel(model_, values) ==
    LET Row(c) == SeqSum([i \in 1..Len(model_.variables) |->
                     IF c \in DOMAIN model_.variables[i]
                     THEN model_.variables[i][c] * values[i] ELSE 0])
    IN  \A c \in DOMAIN model_.constraints :
            /\ model_.constraints[c].min = -1 \/ Row(c) >= model_.constraints[c].min
            /\ model_.constraints[c].max = -1 \/ Row(c) <= model_.constraints[c].max

\* the values the solver may give one variable (dg)
FoodValues == {0, 14, 230, 650, 2050, 2810}

SupplementValues == {0, 14, 60, 250}

\* every assignment of such values to the catalog
Assignments(ingredients) ==
    LET RECURSIVE Upto(_)
        Upto(i) ==
            IF i = 0 THEN {<<>>}
            ELSE {Append(a, v) :
                    a \in Upto(i - 1),
                    v \in IF isSupplement(ingredients[i]) THEN SupplementValues
                          ELSE FoodValues}
    IN  Upto(Len(ingredients))

NoSolution == [feasible |-> FALSE, values |-> <<>>]

\* solver.Solve(model) is not part of the repository: it returns a result that
\* is not feasible, or a feasible assignment that satisfies the constraints of
\* the model (the objective is not followed: any such assignment may come back)
SolverResults(model_, ingredients) ==
    {NoSolution}
      \cup {[feasible |-> TRUE, values |-> a] :
              a \in {b \in Assignments(ingredients) : SatisfiesModel(model_, b)}}

\* "Convert solution": the selections pushed by lines 139-149 (mg)
ConvertSolution(ingredients, solution_) ==
    LET RECURSIVE Convert(_)
        Convert(i) ==
            IF i > Len(ingredients) THEN <<>>
            ELSE (IF solution_.values[i] > 10
                  THEN <<[ingredient |-> ingredients[i],
                          amount |-> ((solution_.values[i] + 5) \div 10) * 1000]>>
                  ELSE <<>>) \o Convert(i + 1)
    IN  IF solution_.feasible THEN Convert(1) ELSE <<>>

\* a variant of the pick that takes the last match of the catalog
FirstWhere_Last(ingredients, hits, grams) ==
    IF hits = {} THEN <<>>
    ELSE <<[ingredient |-> ingredients[CHOOSE i \in hits : \A j \in hits : i >= j],
            amount |-> grams * 1000]>>

\* ingredients.filter(pred)[0] as a list of zero or one selections of `grams`
\* `hits` are the positions of the ingredients the filter keeps
FirstWhere(ingredients, hits, grams) ==
    IF hits = {} THEN <<>>
    ELSE <<[ingredient |-> ingredients[CHOOSE i \in hits : \A j \in hits : i <= j],
            amount |-> grams * 1000]>>

\* the selections of createFallbackDiet
FallbackSelections(ingredients) ==
    LET IsProtein(i) == i.macros.protein > 20 /\ ~isSupplement(i)
        IsCarbs(i) == i.macros.carbs > 20 /\ ~isSupplement(i)
        IsVeggie(i) == \/ Includes(toLowerCase(i.name), "spinach")
                       \/ Includes(toLowerCase(i.name), "broccoli")
                       \/ Includes(toLowerCase(i.name), "kale")
        IsFat(i) == i.macros.fat > 40 /\ ~isSupplement(i)
        IsMultivitamin(i) == Includes(i.name, "Multivitamin")
        filter(Pred(_)) == {i \in 1..Len(ingredients) : Pred(ingredients[i])}
    IN  FirstWhere(ingredients, filter(IsProtein), 200)
          \o FirstWhere(ingredients, filter(IsCarbs), 150)
          \o FirstWhere(ingredients, filter(IsVeggie), 200)
          \o FirstWhere(ingredients, filter(IsFat), 30)
          \o FirstWhere(ingredients, filter(IsMultivitamin), 2)

\* distributeToMeals of dietOptimizerLPSimple.ts; targetCalories is not read
LP_distributeToMeals(selections, meals, targetCalories_) ==
    [k \in 1..Len(meals) |->
        LET Amount(i) ==
                IF isSupplement(selections[i].ingredient)
                THEN IF meals[k].name = "Breakfast" THEN selections[i].amount ELSE 0
                ELSE (selections[i].amount * meals[k].kcalPercentage) \div 100
            RECURSIVE Entries(_)
            Entries(i) ==
                IF i > Len(selections) THEN <<>>
                ELSE (IF Amount(i) >= 1000
                      THEN <<[ingredient |-> selections[i].ingredient,
                              amount |-> MathRound(Amount(i))]>>
                      ELSE <<>>) \o Entries(i + 1)
        IN  [meal |-> meals[k], ingredients |-> Entries(1)]]

\* createFallbackDiet: it recomputes the target calories and distributes
createFallbackDiet(in) ==
    LP_distributeToMeals(
        FallbackSelections(in.ingredients), in.meals,
        LP_adjustCaloriesForGoal(
            LP_calculateTDEE(in.sex, in.age, in.bodyWeight, in.bodyFatPercentage,
                             in.activityLevel),
            in.goal, in.bodyWeight) \div 1000)

----------------------------------------------------------------------------
(* Inputs of the model                                                     *)

Iron == [name |-> "Iron", nrv |-> 14, unit |-> "mg"]

VitaminD == [name |-> "Vitamin D", nrv |-> 5, unit |-> "ug"]

Food(name, protein, carbs, fat, nutrients) ==
    [name |-> name,
     macros |-> [protein |-> protein, carbs |-> carbs, fat |-> fat],
     nutrients |-> nutrients]

ChickenBreast == Food("Chicken Breast", 31, 0, 4, <<[amount |-> 1, nutrient |-> Iron]>>)

Oats == Food("Oats", 3, 12, 2, <<[amount |-> 1, nutrient |-> Iron]>>)

BrownRice == Food("Brown Rice", 8, 77, 3, <<>>)

Spinach == Food("Spinach", 3, 4, 0, <<[amount |-> 3, nutrient |-> Iron]>>)

Almonds == Food("Almonds", 21, 22, 50, <<[amount |-> 4, nutrient |-> Iron]>>)

OliveOil == Food("Olive Oil", 0, 0, 100, <<>>)

Water == Food("Water", 0, 0, 0, <<>>)

Salmon == Food("Salmon", 25, 0, 12, <<[amount |-> 11, nutrient |-> VitaminD]>>)

Multivitamin ==
    Food("Multivitamin Supplement", 0, 1, 0,
         <<[amount |-> 30, nutrient |-> VitaminD], [amount |-> 70, nutrient |-> Iron]>>)

WheyProtein ==
    Food("Whey Protein Supplement", 80, 8, 6, <<[amount |-> 20, nutrient |-> Iron]>>)

\* a drink without calories whose nutrient table lists Iron with amount 0
MineralWater == Food("Mineral Water", 0, 0, 0, <<[amount |-> 0, nutrient |-> Iron]>>)

\* catalogs of the model: names not empty, macros and nutrient amounts not
\* negative, NRVs positive; at most one breakfast food (oat, egg, milk) and one
\* dinner food (rice, meat, fish) in each
Catalogs ==
    { <<ChickenBreast, Oats, BrownRice, Spinach, Almonds, Multivitamin>>,
      <<Almonds, ChickenBreast, BrownRice, WheyProtein>>,
      <<ChickenBreast, BrownRice, OliveOil, Salmon, WheyProtein>>,
      <<ChickenBreast, BrownRice, OliveOil, Multivitamin, Salmon>>,
      <<Salmon, Spinach>>,
      <<BrownRice, OliveOil, Water>>,
      <<Water>>,
      <<MineralWater>>,
      <<MineralWater, BrownRice, OliveOil>>,
      <<BrownRice, OliveOil>>,
      <<>> }

NutrientLists == { <<Iron, VitaminD>>, <<Iron>> }

MealLists ==
    { <<[name |-> "Breakfast", kcalPercentage |-> 25],
        [name |-> "Lunch", kcalPercentage |-> 35],
        [name |-> "Dinner", kcalPercentage |-> 35],
        [name |-> "Snack", kcalPercentage |-> 5]>>,
      <<[name |-> "Lunch", kcalPercentage |-> 50],
        [name |-> "Dinner", kcalPercentage |-> 50]>>,
      <<[name |-> "Main", kcalPercentage |-> 100]>>,
      <<>> }

\* sex, age, weight (kg), body fat (%), activity, goal
Person(sex, age, bodyWeight, bodyFatPercentage, activityLevel, goal) ==
    [sex |-> sex, age |-> age, bodyWeight |-> bodyWeight,
     bodyFatPercentage |-> bodyFatPercentage, activityLevel |-> activityLevel,
     goal |-> goal,
     targetMacros |-> [proteinPercentage |-> 30, carbsPercentage |-> 45,
                       fatPercentage |-> 25]]

Persons ==
    { Person("male", 30, 80, 25, "sedentary", [type |-> "maintain"]),
      Person("male", 22, 80, 25, "sedentary", [type |-> "build-muscle"]),
      Person("female", 25, 50, 20, "sedentary",
             [type |-> "lose-fat", targetBodyFatPercentage |-> 15, targetDate |-> 90]) }

Inputs ==
    { [sex |-> p.sex, age |-> p.age, bodyWeight |-> p.bodyWeight,
       bodyFatPercentage |-> p.bodyFatPercentage, activityLevel |-> p.activityLevel,
       goal |-> p.goal, targetMacros |-> p.targetMacros,
       ingredients |-> c, nutrients |-> n, meals |-> m] :
         p \in Persons, c \in Catalogs, n \in NutrientLists, m \in MealLists }

\* iterations of the selection loop that the model follows
MaxIterations == 30

----------------------------------------------------------------------------
(* The state machine: one call of getDiet                                  *)

\* no Energy Model evaluation is under way
EnergyIdle == energyInputs = <<>> /\ evaluations = <<>>

\* no pair of calls is under way
PairIdle == catalog = <<>> /\ calls = <<>> /\ trackers = <<>>

Init ==
    /\ strategy \in {"greedy", "lp"}
    /\ input \in Inputs
    /\ targetCalories = TargetCaloriesOf(input, strategy)
    /\ pc = IF strategy = "greedy" THEN "select" ELSE "model"
    /\ selectedIngredients = <<>>
    /\ nutrientTracking = IF strategy = "greedy"
                          THEN initializeNutrientTracking(input.nutrients) ELSE <<>>
    /\ currentMacros = [protein |-> 0, carbs |-> 0, fat |-> 0]
    /\ currentCalories = 0
    /\ iterations = 0
    /\ model = NoModel
    /\ solution = NoSolution
    /\ flat = <<>>
    /\ sortedIngredients = <<>>
    /\ mealIndex = 0
    /\ dietMeals = <<>>
    /\ path = "none"
    /\ now = 0
    /\ EnergyIdle
    /\ PairIdle

targetMacrosInGrams == calculateTargetMacros(targetCalories, input.targetMacros)

\* the condition of the while loop of selectOptimalIngredients
LoopCondition ==
    /\ ~areAllNRVsMet(nutrientTracking)
    /\ currentCalories * 100 < targetCalories * 95

bestIngredient ==
    findBestIngredient(input.ingredients, nutrientTracking, currentMacros,
                       targetMacrosInGrams, targetCalories - currentCalories)

optimalAmount ==
    calculateOptimalAmount(input.ingredients[bestIngredient], nutrientTracking,
                           currentMacros, targetMacrosInGrams,
                           targetCalories - currentCalories)

\* selectedIngredients after adding `amount` grams of `ingredient`
AddSelection(selections, ingredient, amount) ==
    LET found == {i \in 1..Len(selections) : selections[i].ingredient.name = ingredient.name}
    IN  IF found # {}
        THEN [selections EXCEPT
                ![CHOOSE i \in found : \A j \in found : i <= j].amount = @ + amount * 1000]
        ELSE Append(selections, [ingredient |-> ingredient, amount |-> amount * 1000])

\* one iteration of the while loop that does not break
SelectIngredient ==
    /\ pc = "select"
    /\ iterations < MaxIterations
    /\ LoopCondition
    /\ bestIngredient # 0
    /\ iterations' = iterations + 1
    /\ IF optimalAmount <= 0
       THEN UNCHANGED <<selectedIngredients, nutrientTracking, currentMacros,
                        currentCalories>>
       ELSE /\ selectedIngredients' =
                  AddSelection(selectedIngredients, input.ingredients[bestIngredient],
                               optimalAmount)
            /\ nutrientTracking' =
                  updateTracking(input.ingredients[bestIngredient], optimalAmount,
                                 nutrientTracking)
            /\ currentMacros' =
                  updateMacros(input.ingredients[bestIngredient], optimalAmount,
                               currentMacros)
            /\ currentCalories' = calculateTotalCalories(currentMacros')
    /\ UNCHANGED <<strategy, input, targetCalories, pc, model, solution, flat,
                   sortedIngredients, mealIndex, dietMeals, path>>
    /\ UNCHANGED <<now, energyVars, pairVars>>

\* the loop ends (condition false, or no best ingredient); optimizeMacroBalance
\* runs; selectOptimalIngredients returns and distributeToMeals sorts its copy
SelectReturn ==
    /\ pc = "select"
    /\ ~LoopCondition \/ bestIngredient = 0
    /\ LET balanced == optimizeMacroBalance(selectedIngredients, currentMacros,
                                            targetMacrosInGrams, targetCalories)
       IN  /\ selectedIngredients' = balanced.selections
           /\ currentMacros' = balanced.macros
           /\ flat' = balanced.selections
           /\ sortedIngredients' = SortedOrder(balanced.selections)
    /\ mealIndex' = 0
    /\ dietMeals' = <<>>
    /\ pc' = "distribute"
    /\ UNCHANGED <<strategy, input, targetCalories, nutrientTracking, currentCalories,
                   iterations, model, solution, path>>
    /\ UNCHANGED <<now, energyVars, pairVars>>

\* the body of `for (const meal of meals)` for the next meal
DistributeMeal ==
    /\ pc = "distribute"
    /\ mealIndex < Len(input.meals)
    /\ LET filled == FillMeal(input.meals[mealIndex + 1], selectedIngredients,
                              sortedIngredients, targetCalories)
       IN  /\ selectedIngredients' = filled.selections
           /\ dietMeals' = Append(dietMeals, [meal |-> input.meals[mealIndex + 1],
                                              ingredients |-> filled.ingredients])
    /\ mealIndex' = mealIndex + 1
    /\ UNCHANGED <<strategy, input, targetCalories, pc, nutrientTracking, currentMacros,
                   currentCalories, iterations, model, solution, flat, sortedIngredients,
                   path>>
    /\ UNCHANGED <<now, energyVars, pairVars>>

\* after the meals: reduce() without an initial value throws a TypeError on an
\* empty meal list; otherwise the leftovers go to the largest meal and the Diet
\* is returned
DistributeLeftovers ==
    /\ pc = "distribute"
    /\ mealIndex = Len(input.meals)
    /\ IF Len(input.meals) = 0
       THEN /\ pc' = "threw"
            /\ UNCHANGED <<dietMeals, path>>
       ELSE /\ dietMeals' =
                  [dietMeals EXCEPT ![LargestMealIndex(input.meals)].ingredients =
                      @ \o Leftovers(selectedIngredients, sortedIngredients)]
            /\ pc' = "done"
            /\ path' = "greedy"
    /\ UNCHANGED <<strategy, input, targetCalories, selectedIngredients,
                   nutrientTracking, currentMacros, currentCalories, iterations,
                   model, solution, flat, sortedIngredients, mealIndex>>
    /\ UNCHANGED <<now, energyVars, pairVars>>

\* getDiet of the LP strategy, steps 1-4: the model is built
LPBuildModel ==
    /\ pc = "model"
    /\ model' = BuildModel(input, targetCalories)
    /\ pc' = "solve"
    /\ UNCHANGED <<strategy, input, targetCalories, selectedIngredients,
                   nutrientTracking, currentMacros, currentCalories, iterations,
                   solution, flat, sortedIngredients, mealIndex, dietMeals, path>>
    /\ UNCHANGED <<now, energyVars, pairVars>>

\* solver.Solve(model) returns
LPSolve ==
    /\ pc = "solve"
    /\ solution' \in SolverResults(model, input.ingredients)
    /\ pc' = "solved"
    /\ UNCHANGED <<strategy, input, targetCalories, selectedIngredients,
                   nutrientTracking, currentMacros, currentCalories, iterations, model,
                   flat, sortedIngredients, mealIndex, dietMeals, path>>
    /\ UNCHANGED <<now, energyVars, pairVars>>

\* fewer than 5 selections: the fallback diet is returned
LPFallback ==
    /\ pc = "solved"
    /\ selectedIngredients' = ConvertSolution(input.ingredients, solution)
    /\ Len(selectedIngredients') < 5
    /\ flat' = FallbackSelections(input.ingredients)
    /\ dietMeals' = createFallbackDiet(input)
    /\ pc' = "done"
    /\ path' = "fallback"
    /\ UNCHANGED <<strategy, input, targetCalories, nutrientTracking, currentMacros,
                   currentCalories, iterations, model, solution, sortedIngredients,
                   mealIndex>>
    /\ UNCHANGED <<now, energyVars, pairVars>>

\* a variant of LPDistribute that is content with 4 selections
LPDistribute_FourSuffice ==
    /\ pc = "solved"
    /\ selectedIngredients' = ConvertSolution(input.ingredients, solution)
    /\ Len(selectedIngredients') >= 4
    /\ flat' = selectedIngredients'
    /\ dietMeals' = LP_distributeToMeals(selectedIngredients', input.meals, targetCalories)
    /\ pc' = "done"
    /\ path' = "solved"
    /\ UNCHANGED <<strategy, input, targetCalories, nutrientTracking, currentMacros,
                   currentCalories, iterations, model, solution, sortedIngredients,
                   mealIndex>>
    /\ UNCHANGED <<now, energyVars, pairVars>>

\* at least 5 selections: the solved selection is distributed and returned
LPDistribute ==
    /\ pc = "solved"
    /\ selectedIngredients' = ConvertSolution(input.ingredients, solution)
    /\ Len(selectedIngredients') >= 5
    /\ flat' = selectedIngredients'
    /\ dietMeals' = LP_distributeToMeals(selectedIngredients', input.meals, targetCalories)
    /\ pc' = "done"
    /\ path' = "solved"
    /\ UNCHANGED <<strategy, input, targetCalories, nutrientTracking, currentMacros,
                   currentCalories, iterations, model, solution, sortedIngredients,
                   mealIndex>>
    /\ UNCHANGED <<now, energyVars, pairVars>>

Next ==
    \/ SelectIngredient
    \/ SelectReturn
    \/ DistributeMeal
    \/ DistributeLeftovers
    \/ LPBuildModel
    \/ LPSolve
    \/ LPFallback
    \/ LPDistribute

Spec == Init /\ [][Next]_vars

----------------------------------------------------------------------------
(* The Energy Model evaluated twice (getDiet steps 1-3 of both files)      *)

\* no call of getDiet is under way
CallIdle ==
    /\ strategy = "none"
    /\ input = <<>>
    /\ targetCalories = 0
    /\ pc = "idle"
    /\ selectedIngredients = <<>>
    /\ nutrientTracking = <<>>
    /\ currentMacros = [protein |-> 0, carbs |-> 0, fat |-> 0]
    /\ currentCalories = 0
    /\ iterations = 0
    /\ model = NoModel
    /\ solution = NoSolution
    /\ flat = <<>>
    /\ sortedIngredients = <<>>
    /\ mealIndex = 0
    /\ dietMeals = <<>>
    /\ path = "none"

\* goals; a targetDate is a day on the scale of `now`, before or after it
EnergyGoals ==
    { [type |-> "build-muscle"],
      [type |-> "maintain"],
      [type |-> "lose-fat", targetBodyFatPercentage |-> 15, targetDate |-> 90],
      [type |-> "lose-fat", targetBodyFatPercentage |-> 10, targetDate |-> 1] }

MacroSplits ==
    { [proteinPercentage |-> 30, carbsPercentage |-> 45, fatPercentage |-> 25],
      [proteinPercentage |-> 40, carbsPercentage |-> 30, fatPercentage |-> 30] }

\* the part of a GetDietInput that steps 1-3 of getDiet are given
EnergyInputs ==
    { [Person(sex, age, bodyWeight, bodyFatPercentage, activityLevel, goal)
          EXCEPT !.targetMacros = split] :
        sex \in {"male", "female"}, age \in {25, 60}, bodyWeight \in {50, 69, 70},
        bodyFatPercentage \in {20, 25}, activityLevel \in {"sedentary", "moderate"},
        goal \in EnergyGoals, split \in MacroSplits }

\* a and b agree on bodyWeight, bodyFatPercentage, activityLevel, goal type and
\* the macro percentages
SameEnergyArguments(a, b) ==
    /\ a.bodyWeight = b.bodyWeight
    /\ a.bodyFatPercentage = b.bodyFatPercentage
    /\ a.activityLevel = b.activityLevel
    /\ a.goal.type = b.goal.type
    /\ a.targetMacros = b.targetMacros

\* days that the clock of the model can advance
MaxNow == 2

InitEnergy ==
    /\ now = 0
    /\ energyInputs \in {<<a, b>> : a \in EnergyInputs, b \in EnergyInputs}
    /\ SameEnergyArguments(energyInputs[1], energyInputs[2])
    /\ evaluations = <<>>
    /\ CallIdle
    /\ PairIdle

\* time passes
Tick ==
    /\ now < MaxNow
    /\ now' = now + 1
    /\ UNCHANGED <<energyVars, callVars, pairVars>>

\* steps 1-3 of getDiet on the next input, by the functions of both files
EvaluateEnergy ==
    /\ Len(evaluations) < Len(energyInputs)
    /\ LET in == energyInputs[Len(evaluations) + 1]
           tdee == calculateTDEE(in.sex, in.age, in.bodyWeight, in.bodyFatPercentage,
                                 in.activityLevel)
           lpTdee == LP_calculateTDEE(in.sex, in.age, in.bodyWeight,
                                      in.bodyFatPercentage, in.activityLevel)
       IN  evaluations' = Append(evaluations,
               [at |-> now,
                tdee |-> tdee,
                adjusted |-> adjustCaloriesForGoal(tdee, in.goal, in.bodyWeight),
                targetCalories |-> TargetCaloriesOf(in, "greedy"),
                targetMacros |-> calculateTargetMacros(TargetCaloriesOf(in, "greedy"),
                                                       in.targetMacros),
                lpTdee |-> lpTdee,
                lpAdjusted |-> LP_adjustCaloriesForGoal(lpTdee, in.goal, in.bodyWeight),
                lpTargetCalories |-> TargetCaloriesOf(in, "lp"),
                lpTargetMacros |-> calculateTargetMacros(TargetCaloriesOf(in, "lp"),
                                                         in.targetMacros)])
    /\ UNCHANGED <<now, energyInputs, callVars, pairVars>>

NextEnergy ==
    \/ Tick
    \/ EvaluateEnergy

SpecEnergy == InitEnergy /\ [][NextEnergy]_vars

----------------------------------------------------------------------------
(* Two calls of the greedy getDiet over the same catalog, nutrient and     *)
(* meal objects, interleaved step by step                                  *)

\* selectOptimalIngredients as one function of its arguments: the selection it
\* returns.  The loop is followed for MaxIterations iterations.
selectOptimalIngredients(ingredients, nutrients, targetMacros, targetCalories_) ==
    LET RECURSIVE Loop(_, _, _, _)
        Loop(selections, tracking, macros, fuel) ==
            LET calories == calculateTotalCalories(macros)
                best == findBestIngredient(ingredients, tracking, macros, targetMacros,
                                           targetCalories_ - calories)
                amount == calculateOptimalAmount(ingredients[best], tracking, macros,
                                                 targetMacros, targetCalories_ - calories)
            IN  IF \/ fuel = 0
                   \/ areAllNRVsMet(tracking)
                   \/ calories * 100 >= targetCalories_ * 95
                   \/ best = 0
                THEN optimizeMacroBalance(selections, macros, targetMacros,
                                          targetCalories_).selections
                ELSE IF amount <= 0 THEN Loop(selections, tracking, macros, fuel - 1)
                ELSE Loop(AddSelection(selections, ingredients[best], amount),
                          updateTracking(ingredients[best], amount, tracking),
                          updateMacros(ingredients[best], amount, macros),
                          fuel - 1)
    IN  Loop(<<>>, initializeNutrientTracking(nutrients),
             [protein |-> 0, carbs |-> 0, fat |-> 0], MaxIterations)

\* getDiet of dietOptimizer.ts as one function of its input: [threw, meals]
getDiet(in) ==
    LET targetCalories_ == TargetCaloriesOf(in, "greedy")
    IN  distributeToMeals(
            selectOptimalIngredients(in.ingredients, in.nutrients,
                                     calculateTargetMacros(targetCalories_, in.targetMacros),
                                     targetCalories_),
            in.meals, targetCalories_)

Callers == {1, 2}

\* a variant in which the tracking objects live at module level, one set for
\* all calls
TrackerOf_ModuleLevel(c) == 1

\* the tracking objects of call c: selectOptimalIngredients creates its own at
\* every call
TrackerOf(c) == c

PairCatalogs ==
    { <<Almonds, ChickenBreast, BrownRice, WheyProtein>>,
      <<ChickenBreast, Oats, BrownRice, Spinach, Almonds, Multivitamin>>,
      <<Salmon, Spinach>> }

PairMealLists ==
    { <<[name |-> "Lunch", kcalPercentage |-> 50],
        [name |-> "Dinner", kcalPercentage |-> 50]>>,
      <<>> }

PairPersons ==
    { Person("male", 30, 80, 25, "sedentary", [type |-> "maintain"]),
      Person("female", 25, 50, 20, "sedentary",
             [type |-> "lose-fat", targetBodyFatPercentage |-> 15, targetDate |-> 90]) }

\* the GetDietInput of a person over the shared objects
InputOver(p, shared) ==
    [sex |-> p.sex, age |-> p.age, bodyWeight |-> p.bodyWeight,
     bodyFatPercentage |-> p.bodyFatPercentage, activityLevel |-> p.activityLevel,
     goal |-> p.goal, targetMacros |-> p.targetMacros,
     ingredients |-> shared.ingredients, nutrients |-> shared.nutrients,
     meals |-> shared.meals]

\* the locals of a call that has not started; `given` is the input as it was
\* when the call was made
NewCall(p, shared) ==
    [person |-> p, given |-> InputOver(p, shared), pc |-> "idle", targetCalories |-> 0,
     selectedIngredients |-> <<>>, currentCalories |-> 0, iterations |-> 0,
     sortedIngredients |-> <<>>, mealIndex |-> 0, dietMeals |-> <<>>]

NoTracker ==
    [nutrientTracking |-> <<>>, currentMacros |-> [protein |-> 0, carbs |-> 0, fat |-> 0]]

InitPair ==
    /\ now = 0
    /\ catalog \in [ingredients : PairCatalogs, nutrients : {<<Iron, VitaminD>>},
                    meals : PairMealLists]
    /\ calls \in {<<NewCall(p, catalog), NewCall(q, catalog)>> :
                     p \in PairPersons, q \in PairPersons}
    /\ trackers = <<NoTracker, NoTracker>>
    /\ CallIdle
    /\ EnergyIdle

\* what call c reads its arguments from
PairInput(c) == InputOver(calls[c].person, catalog)

PairTargetMacros(c) ==
    calculateTargetMacros(calls[c].targetCalories, PairInput(c).targetMacros)

PairTracker(c) == trackers[TrackerOf(c)]

PairLoopCondition(c) ==
    /\ ~areAllNRVsMet(PairTracker(c).nutrientTracking)
    /\ calls[c].currentCalories * 100 < calls[c].targetCalories * 95

PairBestIngredient(c) ==
    findBestIngredient(catalog.ingredients, PairTracker(c).nutrientTracking,
                       PairTracker(c).currentMacros, PairTargetMacros(c),
                       calls[c].targetCalories - calls[c].currentCalories)

PairOptimalAmount(c) ==
    calculateOptimalAmount(catalog.ingredients[PairBestIngredient(c)],
                           PairTracker(c).nutrientTracking, PairTracker(c).currentMacros,
                           PairTargetMacros(c),
                           calls[c].targetCalories - calls[c].currentCalories)

\* getDiet steps 1-3 and the first lines of selectOptimalIngredients
PairStart(c) ==
    /\ calls[c].pc = "idle"
    /\ calls' = [calls EXCEPT ![c].pc = "select",
                              ![c].targetCalories = TargetCaloriesOf(PairInput(c), "greedy")]
    /\ trackers' = [trackers EXCEPT ![TrackerOf(c)] =
                      [nutrientTracking |-> initializeNutrientTracking(catalog.nutrients),
                       currentMacros |-> [protein |-> 0, carbs |-> 0, fat |-> 0]]]
    /\ UNCHANGED <<catalog, now, callVars, energyVars>>

\* one iteration of the while loop of call c
PairSelectIngredient(c) ==
    /\ calls[c].pc = "select"
    /\ calls[c].iterations < MaxIterations
    /\ PairLoopCondition(c)
    /\ PairBestIngredient(c) # 0
    /\ LET best == catalog.ingredients[PairBestIngredient(c)]
           amount == PairOptimalAmount(c)
           macros == updateMacros(best, amount, PairTracker(c).currentMacros)
       IN  IF amount <= 0
           THEN /\ calls' = [calls EXCEPT ![c].iterations = @ + 1]
                /\ UNCHANGED trackers
           ELSE /\ calls' = [calls EXCEPT
                      ![c].iterations = @ + 1,
                      ![c].selectedIngredients = AddSelection(@, best, amount),
                      ![c].currentCalories = calculateTotalCalories(macros)]
                /\ trackers' = [trackers EXCEPT ![TrackerOf(c)] =
                      [nutrientTracking |->
                           updateTracking(best, amount, PairTracker(c).nutrientTracking),
                       currentMacros |-> macros]]
    /\ UNCHANGED <<catalog, now, callVars, energyVars>>

\* the loop of call c ends, optimizeMacroBalance runs, distributeToMeals sorts
PairSelectReturn(c) ==
    /\ calls[c].pc = "select"
    /\ ~PairLoopCondition(c) \/ PairBestIngredient(c) = 0
    /\ LET balanced == optimizeMacroBalance(calls[c].selectedIngredients,
                                            PairTracker(c).currentMacros,
                                            PairTargetMacros(c), calls[c].targetCalories)
       IN  /\ calls' = [calls EXCEPT
                 ![c].pc = "distribute",
                 ![c].selectedIngredients = balanced.selections,
                 ![c].sortedIngredients = SortedOrder(balanced.selections)]
           /\ trackers' = [trackers EXCEPT ![TrackerOf(c)].currentMacros = balanced.macros]
    /\ UNCHANGED <<catalog, now, callVars, energyVars>>

\* the next meal of call c
PairDistributeMeal(c) ==
    /\ calls[c].pc = "distribute"
    /\ calls[c].mealIndex < Len(catalog.meals)
    /\ LET meal == catalog.meals[calls[c].mealIndex + 1]
           filled == FillMeal(meal, calls[c].selectedIngredients,
                              calls[c].sortedIngredients, calls[c].targetCalories)
       IN  calls' = [calls EXCEPT
               ![c].selectedIngredients = filled.selections,
               ![c].dietMeals = Append(@, [meal |-> meal,
                                           ingredients |-> filled.ingredients]),
               ![c].mealIndex = @ + 1]
    /\ UNCHANGED <<catalog, trackers, now, callVars, energyVars>>

\* the leftovers of call c; the call returns or throws
PairDistributeLeftovers(c) ==
    /\ calls[c].pc = "distribute"
    /\ calls[c].mealIndex = Len(catalog.meals)
    /\ IF Len(catalog.meals) = 0
       THEN calls' = [calls EXCEPT ![c].pc = "threw"]
       ELSE calls' = [calls EXCEPT
               ![c].pc = "done",
               ![c].dietMeals =
                   [@ EXCEPT ![LargestMealIndex(catalog.meals)].ingredients =
                       @ \o Leftovers(calls[c].selectedIngredients,
                                      calls[c].sortedIngredients)]]
    /\ UNCHANGED <<catalog, trackers, now, callVars, energyVars>>

NextPair ==
    \/ \E c \in Callers : PairStart(c)
    \/ \E c \in Callers : PairSelectIngredient(c)
    \/ \E c \in Callers : PairSelectReturn(c)
    \/ \E c \in Callers : PairDistributeMeal(c)
    \/ \E c \in Callers : PairDistributeLeftovers(c)

SpecPair == InitPair /\ [][NextPair]_vars

----------------------------------------------------------------------------
(* Properties                                                              *)

\* total of one macro over the entries of the returned Diet, in 1/100000 g
DietMacro(m) ==
    SeqSum([k \in 1..Len(dietMeals) |->
        SeqSum([e \in 1..Len(dietMeals[k].ingredients) |->
            dietMeals[k].ingredients[e].amount
              * dietMeals[k].ingredients[e].ingredient.macros[m] * 1000])])

\* total of one macro over the flat selection, in 1/100000 g
FlatMacro(m) ==
    SeqSum([i \in 1..Len(flat) |-> flat[i].amount * flat[i].ingredient.macros[m]])

\* grams of the ingredient called `name` in meal k of the returned Diet
GramsInMeal(k, name) ==
    SeqSum([e \in 1..Len(dietMeals[k].ingredients) |->
        IF dietMeals[k].ingredients[e].ingredient.name = name
        THEN dietMeals[k].ingredients[e].amount ELSE 0])

\* mg of the ingredient called `name` in a selection list
SelectedAmount(selections, name) ==
    SeqSum([i \in 1..Len(selections) |->
        IF selections[i].ingredient.name = name THEN selections[i].amount ELSE 0])

\* amount per 100 g of the nutrient called `name` in an ingredient
NutrientAmount(ingredient, name) ==
    SeqSum([j \in 1..Len(ingredient.nutrients) |->
        IF ingredient.nutrients[j].nutrient.name = name
        THEN ingredient.nutrients[j].amount ELSE 0])

\* the selections supply at least the NRV of every nutrient of the input
CoversEveryNRV(selections) ==
    \A n \in 1..Len(input.nutrients) :
        SeqSum([i \in 1..Len(selections) |->
            selections[i].amount
              * NutrientAmount(selections[i].ingredient, input.nutrients[n].name)])
          >= input.nutrients[n].nrv * 100000

\* C1: every call of getDiet, of either strategy, ends by returning a Diet with
\* exactly one meal entry per input Meal, in input order, whatever the catalog
\* and the meal list.  (Violated: the greedy strategy throws on an empty meal
\* list.)
C1_OneEntryPerMeal ==
    pc \in {"done", "threw"} =>
        /\ pc = "done"
        /\ Len(dietMeals) = Len(input.meals)
        /\ \A k \in 1..Len(dietMeals) : dietMeals[k].meal = input.meals[k]

\* C2: for each of protein, carbs and fat, the entries of the returned Diet
\* carry the macro total of the flat selection that was distributed, within 1 g
\* (stated for the non-empty meal lists: an empty Diet carries nothing).
\* (Violated by both distributors.)
C2_MacrosPreserved ==
    (pc = "done" /\ Len(input.meals) > 0) =>
        \A m \in {"protein", "carbs", "fat"} : Abs(DietMacro(m) - FlatMacro(m)) <= 100000

\* C3: in a returned Diet no meal holds more than 5 g of a supplement, summing
\* all entries of that supplement in the meal.  (Violated by both distributors.)
C3_SupplementPerMeal ==
    pc = "done" =>
        \A k \in 1..Len(dietMeals) :
            \A e \in 1..Len(dietMeals[k].ingredients) :
                isSupplement(dietMeals[k].ingredients[e].ingredient) =>
                    GramsInMeal(k, dietMeals[k].ingredients[e].ingredient.name) <= 5

\* C4: the flat selection handed to a distributor (greedy: after the loop and
\* the balancer; LP: solved or fallback) holds at most 10 g of every supplement.
\* (Violated by both selectors.)
C4_SupplementTotal ==
    pc \in {"distribute", "done", "threw"} =>
        \A i \in 1..Len(flat) :
            isSupplement(flat[i].ingredient) =>
                SelectedAmount(flat, flat[i].ingredient.name) <= 10000

\* is `grams` inside the practical bounds of `ingredient`?
WithinPracticalBounds(ingredient, grams) ==
    IF isSupplement(ingredient) THEN grams >= 1 /\ grams <= 10
    ELSE grams >= 5 /\ grams <= 500

\* the first half of C5 alone: while the loop runs, calculateOptimalAmount gives
\* every ingredient of the catalog an amount inside its practical bounds
OptimalAmountWithinBounds ==
    (pc = "select" /\ LoopCondition) =>
        \A i \in 1..Len(input.ingredients) :
            WithinPracticalBounds(
                input.ingredients[i],
                calculateOptimalAmount(input.ingredients[i], nutrientTracking,
                                       currentMacros, targetMacrosInGrams,
                                       targetCalories - currentCalories))

\* C5: every amount calculateOptimalAmount computes is inside the practical
\* bounds ([1,10] g supplement, [5,500] g food), and every supplement amount of
\* the LP solved selection is inside [1,10] g.  (Violated by the LP half.)
C5_PracticalBounds ==
    /\ OptimalAmountWithinBounds
    /\ path = "solved" =>
          \A i \in 1..Len(flat) :
              isSupplement(flat[i].ingredient) =>
                  flat[i].amount >= 1000 /\ flat[i].amount <= 10000

\* the solver result selects at least 5 ingredients: feasible, with 5 values above 1 g
SolvedSelectionSuffices ==
    /\ solution.feasible
    /\ Cardinality({i \in 1..Len(input.ingredients) : solution.values[i] > 10}) >= 5

\* C6: a call of the LP getDiet never throws; when the solver result is not
\* feasible, or feasible with fewer than 5 values above 1 g, it returns the diet
\* of createFallbackDiet; it returns the distributed solved selection only when
\* the result is feasible with at least 5 such values.
C6_FallbackDiet ==
    strategy = "lp" =>
        /\ pc # "threw"
        /\ pc = "done" =>
              IF SolvedSelectionSuffices
              THEN /\ path = "solved"
                   /\ dietMeals = LP_distributeToMeals(
                                      ConvertSolution(input.ingredients, solution),
                                      input.meals, targetCalories)
              ELSE /\ path = "fallback"
                   /\ dietMeals = createFallbackDiet(input)

\* C6 witness: a feasible result with fewer than 5 values above 1 g, and yet
\* some, was answered with the fallback diet
C6_Witness ==
    /\ strategy = "lp"
    /\ pc = "done"
    /\ path = "fallback"
    /\ solution.feasible
    /\ \E i \in 1..Len(input.ingredients) : solution.values[i] > 10
    /\ Len(input.meals) > 0

\* C7: for the flat selection, the meal list and the target calories of a
\* returned Diet, the distributor of the greedy strategy and the distributor of
\* the LP strategy give the same Diet.  (Violated.)
C7_SameDistribution ==
    (pc = "done" /\ Len(input.meals) > 0) =>
        distributeToMeals(flat, input.meals, targetCalories).meals
            = LP_distributeToMeals(flat, input.meals, targetCalories)

C9_LoopProgress ==
    [][(pc = "select" /\ pc' = "select") =>
          <<nutrientTracking, currentMacros>>' # <<nutrientTracking, currentMacros>>]_vars

\* C10: no step lowers consumed or percentage of a tracked nutrient
C10_TrackingMonotone ==
    [][\A i \in 1..Len(nutrientTracking) :
          /\ nutrientTracking'[i].nutrient = nutrientTracking[i].nutrient
          /\ nutrientTracking'[i].consumed >= nutrientTracking[i].consumed
          /\ nutrientTracking'[i].percentage >= nutrientTracking[i].percentage]_vars

\* C10 witness: a second pick has raised a nutrient that an earlier pick had
\* already raised, and the loop goes on
C10_Witness ==
    /\ pc = "select"
    /\ iterations >= 3
    /\ LoopCondition
    /\ \E i \in 1..Len(nutrientTracking) :
          /\ nutrientTracking[i].percentage > 0
          /\ nutrientTracking[i].percentage < 10000

\* C14: with an empty catalog the greedy getDiet does not fail: the loop adds
\* nothing, the balancer leaves the empty selection empty, and the Diet has one
\* entry per input meal, each without ingredients.  (Violated: with an empty
\* meal list the call throws.)
C14_EmptyCatalog ==
    (strategy = "greedy" /\ Len(input.ingredients) = 0) =>
        /\ pc # "threw"
        /\ iterations = 0
        /\ selectedIngredients = <<>>
        /\ pc = "done" =>
              /\ Len(dietMeals) = Len(input.meals)
              /\ \A k \in 1..Len(dietMeals) :
                    /\ dietMeals[k].meal = input.meals[k]
                    /\ dietMeals[k].ingredients = <<>>

\* calories of meal k of the returned Diet, in ck
MealCalories(k) ==
    SeqSum([e \in 1..Len(dietMeals[k].ingredients) |->
        dietMeals[k].ingredients[e].amount
          * calculateCaloriesFromMacros(dietMeals[k].ingredients[e].ingredient.macros)])

\* C15: in the Diet of the greedy strategy, made from a non-empty selection of
\* ingredients with positive calories for meals with positive kcalPercentage,
\* every meal holds at least one ingredient and its calories are positive.
\* (Violated: a meal can hold nothing but an entry of 0 g.)
C15_EveryMealFed ==
    (/\ strategy = "greedy"
     /\ pc = "done"
     /\ Len(flat) > 0
     /\ \A i \in 1..Len(flat) : calculateCaloriesFromMacros(flat[i].ingredient.macros) > 0
     /\ \A k \in 1..Len(input.meals) : input.meals[k].kcalPercentage > 0) =>
        \A k \in 1..Len(dietMeals) :
            /\ Len(dietMeals[k].ingredients) > 0
            /\ MealCalories(k) > 0

\* C16: in the final flat selection of the greedy selector (after the loop and
\* the balancer) every ingredient that is not a supplement has between 5 g and
\* 500 g.  (Violated: repeated picks of one ingredient add up beyond 500 g.)
C16_FoodServing ==
    (strategy = "greedy" /\ pc \in {"distribute", "done", "threw"}) =>
        \A i \in 1..Len(flat) :
            ~isSupplement(flat[i].ingredient) =>
                flat[i].amount >= 5000 /\ flat[i].amount <= 500000

\* C17: after distributeToMeals has returned, the selection that was passed in
\* is what it was at the call, and distributing it again gives the same Diet.
\* (Violated: the amounts of the caller's selection objects are reduced.)
C17_DistributorPure ==
    (strategy = "greedy" /\ pc = "done") =>
        /\ selectedIngredients = flat
        /\ distributeToMeals(selectedIngredients, input.meals, targetCalories).meals
              = dietMeals

\* C18: with a non-empty catalog the selection loop stops only with every
\* tracked nutrient at 100% or more or with the running calories at 95% of the
\* target or more, and it performs no iteration in a state where one of the two
\* holds.  (Violated: the loop also stops when every score is NaN.)
C18_LoopExit ==
    [][/\ (pc = "select" /\ pc' # "select" /\ Len(input.ingredients) > 0) =>
             \/ areAllNRVsMet(nutrientTracking)
             \/ currentCalories * 100 >= targetCalories * 95
       /\ iterations' # iterations => LoopCondition]_vars

\* per-100g calories above the remaining budget (ck)
OverBudget(ingredient, remainingCalories) ==
    calculateCaloriesFromMacros(ingredient.macros) * 100 > remainingCalories

\* C19: in an iteration where some catalog ingredient is not over the
\* remaining budget, the ingredient picked is not over budget.  (Violated: an
\* ingredient within the budget whose score is NaN is passed over.)
C19_OverBudgetLast ==
    [][(pc = "select" /\ iterations' # iterations) =>
          LET remainingCalories == targetCalories - currentCalories
          IN  OverBudget(input.ingredients[bestIngredient], remainingCalories) =>
                  \A i \in 1..Len(input.ingredients) :
                      OverBudget(input.ingredients[i], remainingCalories)]_vars

\* a === b on scores
ScoreEqual(a, b) == a.kind # "nan" /\ b.kind # "nan" /\ a = b

\* C20: findBestIngredient returns an ingredient that no ingredient outscores
\* and that is the first of the catalog with its score; it returns none only for
\* an empty catalog.  (Violated: it returns none when every score is NaN.)
C20_BestIngredient ==
    (pc = "select" /\ LoopCondition) =>
        LET score(i) == calculateIngredientScore(input.ingredients[i], nutrientTracking,
                                                 currentMacros, targetMacrosInGrams,
                                                 targetCalories - currentCalories)
        IN  /\ bestIngredient = 0 <=> Len(input.ingredients) = 0
            /\ bestIngredient # 0 =>
                  /\ \A i \in 1..Len(input.ingredients) :
                        ~ScoreGreater(score(i), score(bestIngredient))
                  /\ \A i \in 1..(bestIngredient - 1) :
                        ~ScoreEqual(score(i), score(bestIngredient))

MinIntake(bodyWeight) == (IF bodyWeight < 70 THEN 1200 ELSE 1500) * 100000

C11_CallsIndependent ==
    \A c \in 1..Len(calls) :
        /\ calls[c].pc = "done" =>
              /\ ~getDiet(calls[c].given).threw
              /\ calls[c].dietMeals = getDiet(calls[c].given).meals
        /\ calls[c].pc = "threw" => getDiet(calls[c].given).threw
        /\ PairInput(c) = calls[c].given

\* C11 witness: both calls have returned a Diet, for different persons, each
\* after two or more iterations of its loop
C11_Witness ==
    /\ Len(calls) = 2
    /\ calls[1].pc = "done"
    /\ calls[2].pc = "done"
    /\ calls[1].person # calls[2].person
    /\ calls[1].iterations >= 2
    /\ calls[2].iterations >= 2

\* ((target - current) / per-100g content) * 100 * 1.1 for macro m, in mg
MacroLimit(ingredientMacros, currentMacros_, targetMacros, m) ==
    ((targetMacros[m] - currentMacros_[m] * 3600) * 11) \div (36 * ingredientMacros[m])

\* C21: the macro-limited amount of every catalog ingredient is 1.1 times the
\* least, over the macros the ingredient contains, of (target - current) /
\* content * 100, a macro whose target is reached included, and it is 500 g only
\* for an ingredient without a macro of positive content.  (Violated: a macro
\* whose target is reached or exceeded is left out of the minimum.)
C21_MacroLimitedAmount ==
    (strategy = "greedy" /\ pc = "select") =>
        \A i \in 1..Len(input.ingredients) :
            LET ingredientMacros == input.ingredients[i].macros
                contained == {m \in {"protein", "carbs", "fat"} : ingredientMacros[m] > 0}
                amount == calculateMacroLimitedAmount(ingredientMacros, currentMacros,
                                                      targetMacrosInGrams)
            IN  IF contained = {} THEN amount = 500000
                ELSE /\ \E m \in contained :
                           amount = MacroLimit(ingredientMacros, currentMacros,
                                               targetMacrosInGrams, m)
                     /\ \A m \in contained :
                           amount <= MacroLimit(ingredientMacros, currentMacros,
                                                targetMacrosInGrams, m)

\* C22: for a catalog ingredient without calories the score is a finite number
\* to which the nutrient density contributes 0, that is 5 times the macro
\* score, and the optimal amount is a finite number of grams within the
\* practical bounds.  (Violated: the density of such an ingredient is divided
\* by its zero calories and the score is NaN.)
C22_ZeroDivisorsGuarded ==
    (strategy = "greedy" /\ pc = "select" /\ LoopCondition) =>
        \A i \in 1..Len(input.ingredients) :
            calculateCaloriesFromMacros(input.ingredients[i].macros) = 0 =>
                /\ calculateIngredientScore(input.ingredients[i], nutrientTracking,
                                            currentMacros, targetMacrosInGrams,
                                            targetCalories - currentCalories)
                     = Fin(5 * calculateMacroScore(input.ingredients[i].macros,
                                                   currentMacros, targetMacrosInGrams))
                /\ calculateOptimalAmount(input.ingredients[i], nutrientTracking,
                                          currentMacros, targetMacrosInGrams,
                                          targetCalories - currentCalories) \in 1..500

\* C30: optimizeMacroBalance lowers no amount of the selection the loop hands
\* to it, and it adds and removes no entry.  (Violated: an amount above the
\* ceiling of 10 g or 500 g is brought down to it.)
C30_BalancerNeverLowers ==
    [][(strategy = "greedy" /\ pc = "select" /\ pc' = "distribute") =>
          /\ Len(selectedIngredients') = Len(selectedIngredients)
          /\ \A i \in 1..Len(selectedIngredients) :
                /\ selectedIngredients'[i].ingredient = selectedIngredients[i].ingredient
                /\ selectedIngredients'[i].amount >= selectedIngredients[i].amount]_vars

\* C23: when the balancer takes the refinement branch (the running calories
\* are not more than 5% below the target) it performs between 1 and 10 passes;
\* in each pass the amount of a selection becomes 1.05 times itself, capped at
\* 500 g (10 g for a supplement), exactly when one macro of its ingredient is
\* strictly larger than the other two and the gap of that macro, target minus
\* the macros at the start of the pass, is more than 5 g; every other amount
\* stays, and the selection returned is the one after the last pass.
C23_RefinementPass ==
    [][(/\ strategy = "greedy"
        /\ pc = "select"
        /\ pc' = "distribute"
        /\ (targetCalories - currentCalories) * 100 <= targetCalories * 5) =>
          LET passes == RefinementPasses(selectedIngredients, currentMacros,
                                         targetMacrosInGrams)
              Before(p) == IF p = 1 THEN selectedIngredients ELSE passes[p - 1]
              MacrosBefore(p) == IF p = 1 THEN currentMacros
                                 ELSE RecalculateMacros(passes[p - 1])
              Macros == {"protein", "carbs", "fat"}
              Gap(p, m) == targetMacrosInGrams[m] - MacrosBefore(p)[m] * 3600
              Raised(p, i) ==
                  \E m \in Macros :
                      /\ \A o \in Macros \ {m} :
                            selectedIngredients[i].ingredient.macros[m]
                              > selectedIngredients[i].ingredient.macros[o]
                      /\ Gap(p, m) > 1800000
              Cap(i) == IF isSupplement(selectedIngredients[i].ingredient)
                        THEN 10000 ELSE 500000
          IN  /\ Len(passes) \in 1..10
              /\ selectedIngredients' = passes[Len(passes)]
              /\ \A p \in 1..Len(passes) :
                    /\ Len(passes[p]) = Len(selectedIngredients)
                    /\ \A i \in 1..Len(selectedIngredients) :
                          /\ passes[p][i].ingredient = selectedIngredients[i].ingredient
                          /\ passes[p][i].amount =
                                IF Raised(p, i)
                                THEN Min(Cap(i), (Before(p)[i].amount * 21) \div 20)
                                ELSE Before(p)[i].amount]_vars

\* the balancer has taken the refinement branch and returned: the macros it
\* recomputed hold more calories than the loop had reached, so an amount was
\* raised, and another entry of the selection still has its whole grams
C23_Witness ==
    /\ strategy = "greedy"
    /\ pc = "distribute"
    /\ mealIndex = 0
    /\ (targetCalories - currentCalories) * 100 <= targetCalories * 5
    /\ calculateTotalCalories(currentMacros) > currentCalories
    /\ \E i \in 1..Len(flat) : flat[i].amount % 1000 # 0
    /\ \E i \in 1..Len(flat) : flat[i].amount % 1000 = 0

\* calories (1/100000 kcal) that the fill of a meal took from the selections
\* at the positions before k of the sorted order: the amounts before less the
\* amounts after, by the calories per 100 g
CommittedBefore(k, before, after, order) ==
    SeqSum([j \in 1..(k - 1) |->
        (before[order[j]].amount - after[order[j]].amount)
          * calculateCaloriesFromMacros(before[order[j]].ingredient.macros)])

\* C24: the calories a meal is given in the first pass of the distributor, by
\* the unrounded amounts taken from the selections, are not more than
\* totalTargetCalories * kcalPercentage / 100, and a selection that comes, in
\* the sorted order, after the selections that brought the meal to 95% of that
\* budget is not touched and has no entry in the meal.
C24_MealBudget ==
    [][(strategy = "greedy" /\ pc = "distribute" /\ mealIndex' = mealIndex + 1) =>
          LET meal == input.meals[mealIndex']
              budget == targetCalories * meal.kcalPercentage * 10
              \* the least whole number that is 95% of the budget or more
              nearly == (targetCalories * meal.kcalPercentage * 19 + 1) \div 2
              order == sortedIngredients
              Committed(k) == CommittedBefore(k, selectedIngredients,
                                              selectedIngredients', order)
              entries == dietMeals'[mealIndex'].ingredients
          IN  /\ Committed(Len(order) + 1) <= budget
              /\ \A k \in 1..Len(order) :
                    Committed(k) >= nearly =>
                        /\ selectedIngredients'[order[k]] = selectedIngredients[order[k]]
                        /\ \A e \in 1..Len(entries) :
                              entries[e].ingredient.name
                                 # selectedIngredients[order[k]].ingredient.name]_vars

\* the first meal has been filled: it took a part of a selection, not the
\* whole, and a selection later in the sorted order has no entry in it
C24_Witness ==
    /\ strategy = "greedy"
    /\ pc = "distribute"
    /\ mealIndex = 1
    /\ \E k \in 1..Len(sortedIngredients) :
          /\ selectedIngredients[sortedIngredients[k]].amount > 0
          /\ selectedIngredients[sortedIngredients[k]].amount
                < flat[sortedIngredients[k]].amount
          /\ \E l \in (k + 1)..Len(sortedIngredients) :
                /\ selectedIngredients[sortedIngredients[l]] = flat[sortedIngredients[l]]
                /\ \A e \in 1..Len(dietMeals[1].ingredients) :
                      dietMeals[1].ingredients[e].ingredient.name
                         # flat[sortedIngredients[l]].ingredient.name

C26_MeaningfulPortions ==
    [][(strategy = "greedy" /\ pc = "distribute" /\ mealIndex' = mealIndex + 1) =>
          \A e \in 1..Len(dietMeals'[mealIndex'].ingredients) :
              LET entry == dietMeals'[mealIndex'].ingredients[e]
              IN  /\ entry.amount > 0
                  /\ entry.amount * 10000
                        > SelectedAmount(flat, entry.ingredient.name)]_vars

\* calories of the flat selection, in 1/100000 kcal
FlatCalories ==
    SeqSum([i \in 1..Len(flat) |->
        flat[i].amount * calculateCaloriesFromMacros(flat[i].ingredient.macros)])

\* C27: the flat selection of a solved diet of the LP strategy has calories
\* within 0.9 and 1.1 times the target calories and at least 0.7 times the
\* target grams of protein, of carbs and of fat.  (Violated: the amounts are
\* rounded to whole grams after the solver has returned.)
C27_SolvedWithinConstraints ==
    (strategy = "lp" /\ pc = "done" /\ path = "solved") =>
        /\ FlatCalories >= targetCalories * 900
        /\ FlatCalories <= targetCalories * 1100
        /\ \A m \in {"protein", "carbs", "fat"} :
              FlatMacro(m) * 36 >= 7 * targetMacrosInGrams[m]

\* C28: the selection of a fallback diet holds, in this order and each only if
\* the catalog has a match, the first ingredient that is not a supplement with
\* protein > 20 at 200 g, the first that is not a supplement with carbs > 20 at
\* 150 g, the first whose lower-cased name contains spinach, broccoli or kale at
\* 200 g, the first that is not a supplement with fat > 40 at 30 g, and the
\* first with Multivitamin in its name at 2 g: five entries at most, whatever
\* the person, the nutrients, the meals and the result of the solver.
C28_FallbackSelection ==
    (strategy = "lp" /\ pc = "done" /\ path = "fallback") =>
        LET catalog_ == input.ingredients
            Matches(category) ==
                {i \in 1..Len(catalog_) :
                    LET name == catalog_[i].name
                        food == ~Includes(name, "Supplement")
                    IN  CASE category = 1 -> food /\ catalog_[i].macros.protein > 20
                          [] category = 2 -> food /\ catalog_[i].macros.carbs > 20
                          [] category = 3 -> \E veg \in {"spinach", "broccoli", "kale"} :
                                                 Includes(toLowerCase(name), veg)
                          [] category = 4 -> food /\ catalog_[i].macros.fat > 40
                          [] OTHER -> Includes(name, "Multivitamin")}
            grams == <<200, 150, 200, 30, 2>>
            present == {c \in 1..5 : Matches(c) # {}}
            \* the rank of category c among the categories with a match
            Rank(c) == Cardinality({d \in present : d <= c})
        IN  /\ Len(flat) = Cardinality(present)
            /\ Len(flat) <= 5
            /\ \A c \in present :
                  /\ flat[Rank(c)].amount = grams[c] * 1000
                  /\ \E i \in Matches(c) :
                        /\ flat[Rank(c)].ingredient = catalog_[i]
                        /\ \A j \in Matches(c) : i <= j

\* a fallback diet has been returned over a catalog that has a match in each
\* of the five categories and two matches for protein
C28_Witness ==
    /\ strategy = "lp"
    /\ pc = "done"
    /\ path = "fallback"
    /\ Len(flat) = 5
    /\ Cardinality({i \in 1..Len(input.ingredients) :
                       /\ input.ingredients[i].macros.protein > 20
                       /\ ~isSupplement(input.ingredients[i])}) >= 2

\* C29: a flat selection that is handed to a meal distributor, by the greedy
\* selector, by the solved path or by the fallback path of the LP strategy,
\* holds no two entries of the same ingredient name.  (Violated: the fallback
\* lists an ingredient once for every category it is the first match of.)
C29_OneEntryPerIngredient ==
    (pc \in {"distribute", "done", "threw"}) =>
        \A i, j \in 1..Len(flat) :
            flat[i].ingredient.name = flat[j].ingredient.name => i = j

====
